---------------------------- MODULE Spec2Model ----------------------------
(***************************************************************************)
(* A model of ro-crate-zip-explorer: the ZIP service (src/zip/zipService), *)
(* the explorers built on it (src/explorer.ts) and the byte sources.       *)
(*                                                                         *)
(* Numbers.  TLC's integers are 32 bits wide, JavaScript's numbers are     *)
(* not.  An unsigned 32-bit value v >= 2^31 is written v - 2^32 (so        *)
(* 0xFFFFFFFF is -1): the map is one-to-one, so every equality test of the *)
(* code keeps its meaning.  A negative number therefore always reads "at   *)
(* least 2^31", which is beyond every archive of the model; sums saturate  *)
(* (Plus) instead of wrapping, as JavaScript's doubles do not wrap.        *)
(***************************************************************************)
EXTENDS Integers, Sequences, FiniteSets, TLC

-----------------------------------------------------------------------------
(* Bounds of the model *)

\* Number of calls the caller issues in one behaviour.
MaxCalls == 3
\* Number of requests to a URL that fail in one behaviour.
MaxFailures == 1

-----------------------------------------------------------------------------
(* Program constants: ZipConstants, src/zip/zipService.ts 701-719 *)

MAX_EOCD_SIZE == 65536
\* 0x06054b50
END_OF_CENTRAL_DIRECTORY_SIGNATURE == 101010256
\* 0x02014b50
CENTRAL_DIRECTORY_FILE_HEADER_SIGNATURE == 33639248
\* 0x07064b50
ZIP64_EOCD_LOCATOR_SIGNATURE == 117853008
\* 0x0001
ZIP64_EXTRA_FIELD_SIGNATURE == 1
\* 0xffffffff, in the 32-bit writing explained above
ZIP64_VALUE_STORED_IN_EXTRA_FIELD == -1

\* "ro-crate-metadata.json" as its UTF-16 code units (explorer.ts 89)
ROCRATE_METADATA_FILENAME ==
  <<114,111,45,99,114,97,116,101,45,109,101,116,97,100,97,116,97,46,106,115,111,110>>

\* "/"
Slash == 47

NoValue == "undefined"

-----------------------------------------------------------------------------
(* Numbers that may not fit *)

Huge(x) == x < 0

\* Largest number TLC can hold.
MaxInt == 2147483646 + 1

\* a + b of two JavaScript numbers; a result of 2^31 or more is "huge".
Plus(a, b) ==
  IF Huge(a) \/ Huge(b) THEN -1
  ELSE IF a > MaxInt - b THEN -1
  ELSE a + b

Min(a, b) == IF a < b THEN a ELSE b
Max(a, b) == IF a < b THEN b ELSE a

-----------------------------------------------------------------------------
(* Byte sources.  A source is pre zero bytes, then body, then post zero    *)
(* bytes: the long runs of zeros stand for payload or comment bytes that   *)
(* no parser looks into, and keep archives longer than MAX_EOCD_SIZE small *)
(* to write down.                                                          *)

SourceSize(a) == a.pre + Len(a.body) + a.post

\* The byte at 0-based offset i of the source.
SrcByte(a, i) ==
  IF i >= a.pre /\ i < a.pre + Len(a.body) THEN a.body[i - a.pre + 1] ELSE 0

\* A buffer handed out by a ranged read is a window [start, start+len) of the
\* (immutable) source: Uint8Array / ArrayBuffer / DataView over these bytes.
Buffer(start, len) == [start |-> start, len |-> len]

\* DataView bounds check: a read of w bytes at off outside the view throws
\* RangeError.
InView(buf, off, w) == off >= 0 /\ off + w <= buf.len

getUint8(a, buf, off) == SrcByte(a, buf.start + off)

getUint16(a, buf, off) == getUint8(a, buf, off) + 256 * getUint8(a, buf, off + 1)

\* dataView.getUint32(off, true)
getUint32(a, buf, off) ==
  LET b3 == getUint8(a, buf, off + 3)
  IN  getUint16(a, buf, off) + 65536 * getUint8(a, buf, off + 2)
        + 16777216 * (IF b3 < 128 THEN b3 ELSE b3 - 256)

\* Number(dataView.getBigUint64(off, true)); a value of 2^32 or more is huge.
getBigUint64(a, buf, off) ==
  IF getUint32(a, buf, off + 4) = 0 THEN getUint32(a, buf, off) ELSE -1

\* buffer.slice(from, to) of the bytes behind a view: clamps, never throws.
SliceView(buf, from, to) ==
  LET f == Min(Max(from, 0), buf.len)
      t == Min(Max(to, 0), buf.len)
  IN  Buffer(buf.start + f, Max(t - f, 0))

\* The bytes of a view as a sequence.
BytesOf(a, buf) == [i \in 1..buf.len |-> SrcByte(a, buf.start + i - 1)]

-----------------------------------------------------------------------------
(* The archives the explorers are constructed over.  They are written with *)
(* the ZIP wire layout, byte by byte, so that the parser below works on    *)
(* what the code works on.                                                 *)

LE16(n) == <<n % 256, n \div 256>>
LE32(n) == <<n % 256, (n \div 256) % 256, (n \div 65536) % 256, (n \div 16777216) % 256>>
LE64(n) == LE32(n) \o <<0, 0, 0, 0>>
FF32 == <<255, 255, 255, 255>>

\* One stored (BTYPE = 00), final DEFLATE block holding the bytes d.
StoredBlock(d) == <<1>> \o LE16(Len(d)) \o LE16(65535 - Len(d)) \o d

\* A member: name, compression method, the bytes stored in the archive,
\* the uncompressed size, the DOS date-time, the extra bytes of its local
\* header, how ZIP64 is used in its central-directory record ("no", "all":
\* all three fields are 0xFFFFFFFF and the ZIP64 extra record holds all
\* three, "off": only the local-header offset is 0xFFFFFFFF and the ZIP64
\* extra record holds it alone), and the record's signature.
Member(name, method, data, usize, time, lextra, z64, sig) ==
  [name |-> name, method |-> method, data |-> data, usize |-> usize,
   time |-> time, lextra |-> lextra, z64 |-> z64, sig |-> sig]

CDSIG == LE32(CENTRAL_DIRECTORY_FILE_HEADER_SIGNATURE)

\* Local file header (30 bytes), name, extra, data.
LocalPart(m) ==
  <<80, 75, 3, 4>> \o <<20, 0>> \o <<0, 0>> \o LE16(m.method) \o LE32(m.time)
    \o <<0, 0, 0, 0>> \o LE32(Len(m.data)) \o LE32(m.usize)
    \o LE16(Len(m.name)) \o LE16(Len(m.lextra)) \o m.name \o m.lextra \o m.data

Zip64Extra(m, off) ==
  CASE m.z64 = "all" ->
         LE16(ZIP64_EXTRA_FIELD_SIGNATURE) \o LE16(24) \o LE64(m.usize)
           \o LE64(Len(m.data)) \o LE64(off)
    [] m.z64 = "off" -> LE16(ZIP64_EXTRA_FIELD_SIGNATURE) \o LE16(8) \o LE64(off)
    [] OTHER -> <<>>

\* Central directory file header of member m whose local header is at off.
CDRecord(m, off) ==
  LET extra == Zip64Extra(m, off)
  IN  m.sig \o <<20, 0, 20, 0>> \o <<0, 0>> \o LE16(m.method) \o LE32(m.time)
        \o <<0, 0, 0, 0>>
        \o (IF m.z64 = "all" THEN FF32 ELSE LE32(Len(m.data)))
        \o (IF m.z64 = "all" THEN FF32 ELSE LE32(m.usize))
        \o LE16(Len(m.name)) \o LE16(Len(extra)) \o LE16(0)
        \o <<0, 0>> \o <<0, 0>> \o <<0, 0, 0, 0>>
        \o (IF m.z64 = "no" THEN LE32(off) ELSE FF32)
        \o m.name \o extra

RECURSIVE LocalParts(_)
LocalParts(ms) ==
  IF ms = <<>> THEN <<>> ELSE LocalPart(Head(ms)) \o LocalParts(Tail(ms))

RECURSIVE CDRecords(_, _)
CDRecords(ms, off) ==
  IF ms = <<>> THEN <<>>
  ELSE CDRecord(Head(ms), off) \o CDRecords(Tail(ms), off + Len(LocalPart(Head(ms))))

\* End of central directory record (22 bytes) and the archive comment.
EOCDRecord(count, cdSize, cdOffset, commentLength) ==
  LE32(END_OF_CENTRAL_DIRECTORY_SIGNATURE) \o <<0, 0>> \o <<0, 0>> \o LE16(count)
    \o LE16(count) \o LE32(cdSize) \o LE32(cdOffset) \o LE16(commentLength)

\* ZIP64 end of central directory record (56 bytes) and its locator (20).
Zip64Tail(count, cdSize, cdOffset) ==
  <<80, 75, 6, 6>> \o LE64(44) \o <<45, 0, 45, 0>> \o LE32(0) \o LE32(0)
    \o LE64(count) \o LE64(count) \o LE64(cdSize) \o LE64(cdOffset)
    \o LE32(ZIP64_EOCD_LOCATOR_SIGNATURE) \o LE32(0) \o LE64(cdOffset + cdSize)
    \o LE32(1)

\* An archive: pre zero bytes, the members' local parts, the central
\* directory, the ZIP64 tail if asked for, the EOCD, the comment (its first
\* bytes as given, then post zero bytes).
ZipFile(pre, ms, zip64, comment, post) ==
  LET locals == LocalParts(ms)
      cd == CDRecords(ms, pre)
      cdOffset == pre + Len(locals)
  IN  [pre |-> pre,
       body |-> locals \o cd
                  \o (IF zip64 THEN Zip64Tail(Len(ms), Len(cd), cdOffset) ELSE <<>>)
                  \o EOCDRecord(Len(ms), Len(cd), cdOffset, Len(comment) + post)
                  \o comment,
       post |-> post]

\* "d/", "d/a", "e", "b", "c"
DirD == Member(<<100, 47>>, 0, <<>>, 0, 0, <<>>, "no", CDSIG)
\* DOS date-time of 2024-05-17 10:30:42: date word (44*16+5)*32+17, time
\* word (10*64+30)*32+21
FileA(z64) == Member(<<100, 47, 97>>, 0, <<104, 105>>, 2, 1488016341, <<7, 7>>, z64, CDSIG)
FileE(sig) == Member(<<101>>, 0, <<>>, 0, 0, <<>>, "no", sig)
\* method 12 (bzip2): stored in the archive, never decoded by the code; DOS
\* date-time of 2107-12-31 23:59:58, 0xFF9FBF7D: date word (127*16+12)*32+31,
\* time word (23*64+59)*32+29
FileB == Member(<<98>>, 12, <<9, 9, 9>>, 5, -6307971, <<>>, "no", CDSIG)
\* "hi", DEFLATEd
FileC == Member(<<99>>, 8, StoredBlock(<<104, 105>>), 2, 0, <<>>, "no", CDSIG)
\* the RO-Crate document "{}", DEFLATEd
CrateFile(name) == Member(name, 8, StoredBlock(<<123, 125>>), 2, 0, <<>>, "no", CDSIG)
\* the RO-Crate document CrateDocument, DEFLATEd
DescribedCrateFile ==
  Member(ROCRATE_METADATA_FILENAME, 8, StoredBlock(<<123, 49, 125>>), 3, 0, <<>>, "no", CDSIG)
\* a file with the crate's name that is no JSON document
BrokenCrateFile == Member(ROCRATE_METADATA_FILENAME, 0, <<120>>, 1, 0, <<>>, "no", CDSIG)

\* a second member "d/a" with the same payload and another date-time
FileA2 == [FileA("no") EXCEPT !.time = 0]

\* An EOCD-shaped comment: signature, no entries, empty central directory.
FakeEOCD == EOCDRecord(0, 0, 0, 0)

Zip(pre, ms, zip64, comment, post) ==
  [zip |-> TRUE, pre |-> pre, ms |-> ms, zip64 |-> zip64, comment |-> comment,
   post |-> post, bytes |-> <<>>]
Raw(bytes) ==
  [zip |-> FALSE, pre |-> 0, ms |-> <<>>, zip64 |-> FALSE, comment |-> <<>>,
   post |-> 0, bytes |-> bytes]

\* How the sources of the model are laid out.
Layouts ==
  << \* 1: an RO-Crate archive: directory, stored file, DEFLATEd crate
     Zip(0, <<DirD, FileA("no"), DescribedCrateFile>>, FALSE, <<>>, 0),
     \* 2: no crate: stored file, DEFLATEd file, unsupported method
     Zip(0, <<FileA("no"), FileC, FileB>>, FALSE, <<>>, 0),
     \* 3: no crate, but a file with a longer name that ends in the crate's name
     Zip(0, <<CrateFile(<<120>> \o ROCRATE_METADATA_FILENAME), FileE(CDSIG)>>, FALSE, <<>>, 0),
     \* 4: a file with the crate's name below a directory, then the crate itself
     Zip(0, <<[BrokenCrateFile EXCEPT !.name = <<100, 47>> \o ROCRATE_METADATA_FILENAME],
              CrateFile(ROCRATE_METADATA_FILENAME)>>, FALSE, <<>>, 0),
     \* 5: second record with a wrong signature
     Zip(0, <<FileA("no"), FileE(<<80, 75, 1, 3>>)>>, FALSE, <<>>, 0),
     \* 6: 30 bytes that hold no EOCD signature
     Raw([i \in 1..30 |-> 80]),
     \* 7: an EOCD signature in a source shorter than an EOCD record
     Raw(LE32(END_OF_CENTRAL_DIRECTORY_SIGNATURE) \o <<0, 0, 0, 0, 0, 0>>),
     \* 8: the comment holds an EOCD signature, 22 bytes before the end
     Zip(0, <<FileA("no")>>, FALSE, FakeEOCD, 0),
     \* 9: ZIP64, all three fields in the ZIP64 extra record
     Zip(0, <<FileA("all")>>, TRUE, <<>>, 0),
     \* 10: ZIP64, only the local-header offset in the ZIP64 extra record
     Zip(0, <<FileA("off")>>, TRUE, <<>>, 0),
     \* 11: longer than the EOCD window
     Zip(MAX_EOCD_SIZE, <<FileA("no"), CrateFile(ROCRATE_METADATA_FILENAME)>>, FALSE, <<>>, 0),
     \* 12: a comment of 65535 bytes: the EOCD lies before the window
     Zip(0, <<FileA("no")>>, FALSE, <<>>, MAX_EOCD_SIZE - 1),
     \* 13: directories only
     Zip(0, <<DirD>>, FALSE, <<>>, 0),
     \* 14: a crate file that is no JSON document
     Zip(0, <<BrokenCrateFile>>, FALSE, <<>>, 0),
     \* 15: two central-directory records with the path "d/a"
     Zip(0, <<FileA("no"), FileA2>>, FALSE, <<>>, 0),
     \* 16: ZIP64 with a comment of 65504 bytes: the EOCD is in the window,
     \* the locator before it is not
     Zip(0, <<FileA("all")>>, TRUE, <<>>, MAX_EOCD_SIZE - 32) >>

\* The sources that are also served from a URL: the crate, the archive with
\* an empty file, the archive whose EOCD names an empty central directory.
RemoteSources == {1, 3, 8}

\* The bytes of the sources.
Archives ==
  [i \in 1..Len(Layouts) |->
     LET l == Layouts[i]
     IN  IF l.zip THEN ZipFile(l.pre, l.ms, l.zip64, l.comment, l.post)
         ELSE [pre |-> 0, body |-> l.bytes, post |-> 0]]

-----------------------------------------------------------------------------
(* Errors (the messages of the code) *)

ErrNotOpen == "Please call open() before accessing the ZIP archive"
ErrNoCrate == "No RO-Crate metadata found in the ZIP archive"
ErrNoMetadata == "Metadata for file not found. Make sure to call extractMetadata() first."
ErrDirectory == "Cannot extract a directory."
ErrSizeMismatch == "File data size mismatch."
ErrUnsupported == "Unsupported compression method"
ErrNoEOCD == "Cannot find the End of Central Directory (EOCD). This is not a valid ZIP file."
ErrEOCDNotLoaded == "End of Central Directory (EOCD) data not loaded."
ErrCDSignature == "Invalid Central Directory file header signature."
ErrZip64Signature == "Invalid ZIP64 extra field signature."
ErrRange == "RangeError: Offset is outside the bounds of the DataView"
ErrFetch == "Failed to fetch"
ErrInflate == "pako: invalid DEFLATE data"
ErrInvalidUrl == "Invalid URL"
ErrJSON == "SyntaxError: JSON.parse"
ErrRedirect == "Redirect location missing in response"
ErrParseUrl == "TypeError: Failed to parse URL"

Ok(v) == [ok |-> TRUE, val |-> v]
Fail(e) == [ok |-> FALSE, err |-> e]

-----------------------------------------------------------------------------
(* Ranged reads *)

\* An offset clamped to the source, as Blob.slice and HTTP servers do.
Clamp(x, size) == IF Huge(x) THEN size ELSE Min(x, size)

\* LocalZipService.getRange: zipFile.slice(start, start + length), read whole.
LocalRange(a, start, length) ==
  LET s == Clamp(start, SourceSize(a))
      e == Clamp(Plus(start, length), SourceSize(a))
  IN  {Ok(Buffer(s, Max(e - s, 0)))}

\* getRange of utils: Range: bytes=<start>-<start+length-1>, any non-OK
\* response is an error, the body is taken as it comes.  The server answers
\* a range inside the resource with these bytes (cut at the end of the
\* resource), a range that starts behind the end with 416, and a range it
\* cannot read (length 0: the last position is below the first) with 416 or
\* with the whole resource; any request may fail.
RemoteRange(a, start, length) ==
  {Fail(ErrFetch)} \cup
  IF length = 0 THEN {Ok(Buffer(0, SourceSize(a)))}
  ELSE IF Huge(start) \/ start >= SourceSize(a) THEN {}
  ELSE {Ok(Buffer(start, Clamp(Plus(start, length), SourceSize(a)) - start))}

getRange(a, isRemote, start, length) ==
  IF isRemote THEN RemoteRange(a, start, length) ELSE LocalRange(a, start, length)

-----------------------------------------------------------------------------
(* EndOfCentralDirectoryData *)

\* A scan that starts at the last four bytes of the window.
EOCDScanStartLate(dataView) == dataView.len - 4

\* Where the backward scan for the EOCD signature starts.
EOCDScanStart(dataView) == dataView.len - 22

\* The scan looks at every offset; four zero bytes never are the signature,
\* so the model steps over the zero runs of the source at once: from inside
\* the run behind the body to the last offset that touches the body, and
\* from inside the run before the body to the end of the scan.
SkipZeroRun(a, dataView, offset) ==
  LET abs == dataView.start + offset
      bodyEnd == a.pre + Len(a.body)
  IN  IF abs >= bodyEnd THEN Min(offset, bodyEnd - 1 - dataView.start)
      ELSE IF abs + 3 < a.pre THEN -1
      ELSE offset

RECURSIVE ScanForEOCD(_, _, _)
ScanForEOCD(a, dataView, offset) ==
  IF offset < 0 THEN -1
  ELSE IF getUint32(a, dataView, offset) = END_OF_CENTRAL_DIRECTORY_SIGNATURE THEN offset
  ELSE ScanForEOCD(a, dataView, SkipZeroRun(a, dataView, offset - 1))

\* The offset of the EOCD record in the window, -1 when the code throws.
findEndOfCentralDirectoryOffset(a, dataView) ==
  ScanForEOCD(a, dataView, SkipZeroRun(a, dataView, EOCDScanStart(dataView)))

\* TRUE when a locator record is returned, FALSE when undefined is.
readZip64Locator(a, dataView, offset) ==
  LET zip64EOCDLocatorOffset == offset - 20
  IN  IF zip64EOCDLocatorOffset < 0 THEN FALSE
      ELSE getUint32(a, dataView, zip64EOCDLocatorOffset) = ZIP64_EOCD_LOCATOR_SIGNATURE

\* new EndOfCentralDirectoryData(dataView)
EndOfCentralDirectoryData(a, dataView) ==
  LET offset == findEndOfCentralDirectoryOffset(a, dataView)
  IN  IF offset < 0 THEN Fail(ErrNoEOCD)
      ELSE Ok([dataView |-> dataView, offset |-> offset,
               isZip64 |-> readZip64Locator(a, dataView, offset)])

\* A loadEOCDData that asks for the whole source.
EOCDRangeOfAll(zipSize) == [start |-> 0, len |-> zipSize]

\* loadEOCDData: the range it asks for.
EOCDRange(zipSize) ==
  [start |-> Max(zipSize - MAX_EOCD_SIZE, 0), len |-> Min(zipSize, MAX_EOCD_SIZE)]

\* getCentralDirectory: the range it asks for, read from the EOCD window.
CDRange(a, eocd) ==
  IF InView(eocd.dataView, eocd.offset + 12, 8)
  THEN Ok([start |-> getUint32(a, eocd.dataView, eocd.offset + 16),
           len |-> getUint32(a, eocd.dataView, eocd.offset + 12)])
  ELSE Fail(ErrRange)

-----------------------------------------------------------------------------
(* Central directory *)

\* TextDecoder.decode of a file name: UTF-8 to code units.  One-byte and
\* two-byte sequences are decoded, every other byte gives U+FFFD (no name
\* of the model starts a longer sequence).
RECURSIVE Utf8Decode(_)
Utf8Decode(bytes) ==
  IF bytes = <<>> THEN <<>>
  ELSE LET b == Head(bytes)
       IN  IF b < 128 THEN <<b>> \o Utf8Decode(Tail(bytes))
           ELSE IF b >= 194 /\ b <= 223 /\ Len(bytes) >= 2
                   /\ bytes[2] >= 128 /\ bytes[2] <= 191
                THEN <<(b - 192) * 64 + (bytes[2] - 128)>> \o Utf8Decode(Tail(Tail(bytes)))
                ELSE <<65533>> \o Utf8Decode(Tail(bytes))

\* parseZip64ExtraField: the extra block is taken to start with the ZIP64
\* record and to hold all three values.
parseZip64ExtraField(a, dataView, fileNameEndOffset, extraFieldLength) ==
  LET extra == SliceView(dataView, fileNameEndOffset, fileNameEndOffset + extraFieldLength)
  IN  IF ~InView(extra, 0, 2) THEN Fail(ErrRange)
      ELSE IF getUint16(a, extra, 0) # ZIP64_EXTRA_FIELD_SIGNATURE THEN Fail(ErrZip64Signature)
      ELSE IF ~InView(extra, 20, 8) THEN Fail(ErrRange)
      ELSE Ok([uncompressedSize |-> getBigUint64(a, extra, 4),
               compressedSize |-> getBigUint64(a, extra, 12),
               headerOffset |-> getBigUint64(a, extra, 20)])

\* Whether the record takes its values from the ZIP64 extra record.
UsesZip64Extra(compressedSize, uncompressedSize, headerOffset) ==
  headerOffset = ZIP64_VALUE_STORED_IN_EXTRA_FIELD

parseCentralDirectoryFileHeader(a, dataView, offset) ==
  IF ~InView(dataView, offset, 4) THEN Fail(ErrRange)
  ELSE IF getUint32(a, dataView, offset) # CENTRAL_DIRECTORY_FILE_HEADER_SIGNATURE
  THEN Fail(ErrCDSignature)
  ELSE IF ~InView(dataView, offset, 46) THEN Fail(ErrRange)
  ELSE
    LET fileNameLength == getUint16(a, dataView, offset + 28)
        extraFieldLength == getUint16(a, dataView, offset + 30)
        fileNameStartOffset == offset + 46
        fileNameEndOffset == fileNameStartOffset + fileNameLength
        fileName == Utf8Decode(BytesOf(a, SliceView(dataView, fileNameStartOffset, fileNameEndOffset)))
        fileCommentLength == getUint16(a, dataView, offset + 32)
        compressedSize == getUint32(a, dataView, offset + 20)
        uncompressedSize == getUint32(a, dataView, offset + 24)
        headerOffset == getUint32(a, dataView, offset + 42)
        zip64 == parseZip64ExtraField(a, dataView, fileNameEndOffset, extraFieldLength)
        useZip64 == UsesZip64Extra(compressedSize, uncompressedSize, headerOffset)
    IN  IF useZip64 /\ ~zip64.ok THEN zip64
        ELSE Ok([fileName |-> fileName,
                 dateTime |-> getUint32(a, dataView, offset + 12),
                 crc32 |-> getUint32(a, dataView, offset + 16),
                 headerOffset |-> IF useZip64 THEN zip64.val.headerOffset ELSE headerOffset,
                 compressionMethod |-> getUint16(a, dataView, offset + 10),
                 compressedSize |-> IF useZip64 THEN zip64.val.compressedSize ELSE compressedSize,
                 uncompressedSize |-> IF useZip64 THEN zip64.val.uncompressedSize ELSE uncompressedSize,
                 nextOffset |-> 46 + fileNameLength + extraFieldLength + fileCommentLength])

\* getBits of decodeDateTime: the low n bits of val (val & (2 ** n - 1), on
\* the 32-bit two's complement of val) and val >> n.
LowBits(val, n) == val % (2 ^ n)
ShiftRight(val, n) == val \div (2 ^ n)

\* The arguments handed to new Date(...): year, month index, day, hours,
\* minutes, seconds.
decodeDateTime(dateTime) ==
  LET v1 == ShiftRight(dateTime, 5)
      v2 == ShiftRight(v1, 6)
      v3 == ShiftRight(v2, 5)
      v4 == ShiftRight(v3, 5)
      v5 == ShiftRight(v4, 4)
  IN  [year |-> LowBits(v5, 7) + 1980, month |-> LowBits(v4, 4) - 1,
       day |-> LowBits(v3, 5), hour |-> LowBits(v2, 5), min |-> LowBits(v1, 6),
       sec |-> LowBits(dateTime, 5)]

\* fileName.endsWith(suffix)
EndsWith(path, suffix) ==
  /\ Len(suffix) <= Len(path)
  /\ SubSeq(path, Len(path) - Len(suffix) + 1, Len(path)) = suffix

\* The type createZipEntry gives an entry.
EntryType(fileName) == IF EndsWith(fileName, <<Slash>>) THEN "Directory" ELSE "File"

createZipEntry(h) ==
  [path |-> h.fileName,
   headerOffset |-> h.headerOffset,
   compressionMethod |-> h.compressionMethod,
   compressSize |-> h.compressedSize,
   fileSize |-> h.uncompressedSize,
   dateTime |-> decodeDateTime(h.dateTime),
   type |-> EntryType(h.fileName),
   isCompressed |-> h.compressedSize # h.uncompressedSize]

\* The loop of getZipEntries over the central directory bytes.
RECURSIVE ParseEntries(_, _, _, _)
ParseEntries(a, dataView, offset, entries) ==
  IF ~(offset < dataView.len) THEN Ok(entries)
  ELSE LET h == parseCentralDirectoryFileHeader(a, dataView, offset)
       IN  IF ~h.ok THEN h
           ELSE ParseEntries(a, dataView, offset + h.val.nextOffset,
                             Append(entries, createZipEntry(h.val)))

getZipEntries(a, centralDirectoryData) == ParseEntries(a, centralDirectoryData, 0, <<>>)

\* entries.find(file => file.type === "File" && file.path.endsWith(fileName)):
\* the index of the entry found, 0 for undefined.
FindMatch(path, fileName) == EndsWith(path, fileName)

\* A find that does not look at the type of the entry.
findFileByNameOfAnyType(entries, fileName) ==
  LET hits == {i \in 1..Len(entries) : FindMatch(entries[i].path, fileName)}
  IN  IF hits = {} THEN 0 ELSE CHOOSE i \in hits : \A j \in hits : i <= j

findFileByName(entries, fileName) ==
  LET hits == {i \in 1..Len(entries) :
                 entries[i].type = "File" /\ FindMatch(entries[i].path, fileName)}
  IN  IF hits = {} THEN 0 ELSE CHOOSE i \in hits : \A j \in hits : i <= j

-----------------------------------------------------------------------------
(* extractFile *)

\* calculateFileDataOffset, once the 30 bytes of the local header are read.
calculateFileDataOffset(a, file, localHeaderData) ==
  IF ~InView(localHeaderData, 26, 4) THEN Fail(ErrRange)
  ELSE Ok(Plus(Plus(Plus(file.headerOffset, 30), getUint16(a, localHeaderData, 26)),
               getUint16(a, localHeaderData, 28)))

\* pako.inflateRaw on stored blocks (BTYPE = 00); a block of another type,
\* a wrong length complement or a cut block is an error.  Huffman-coded
\* blocks are outside the model: no archive of the model holds one.
RECURSIVE InflateFrom(_, _)
InflateFrom(bytes, pos) ==
  IF pos + 4 > Len(bytes) THEN Fail(ErrInflate)
  ELSE LET bfinal == bytes[pos] % 2
           btype == (bytes[pos] \div 2) % 4
           len == bytes[pos + 1] + 256 * bytes[pos + 2]
           nlen == bytes[pos + 3] + 256 * bytes[pos + 4]
       IN  IF btype # 0 \/ len + nlen # 65535 \/ pos + 4 + len > Len(bytes)
           THEN Fail(ErrInflate)
           ELSE LET block == SubSeq(bytes, pos + 5, pos + 4 + len)
                    rest == InflateFrom(bytes, pos + 5 + len)
                IN  IF bfinal = 1 THEN Ok(block)
                    ELSE IF rest.ok THEN Ok(block \o rest.val) ELSE rest

inflateRaw(bytes) == InflateFrom(bytes, 1)

\* An extractFile that hands out the payload as it is stored.
DecompressNothing(compressionMethod, bytes) == Ok(bytes)

\* What extractFile does with the compression method.
Decompress(compressionMethod, bytes) ==
  IF compressionMethod = 0 THEN Ok(bytes)
  ELSE IF compressionMethod = 8 THEN inflateRaw(bytes)
  ELSE Fail(ErrUnsupported)

\* extractFile, once the payload is read.
ExtractResult(a, file, fileData) ==
  IF (Huge(file.compressSize) \/ file.compressSize > 0) /\ fileData.len # file.compressSize
  THEN Fail(ErrSizeMismatch)
  ELSE Decompress(file.compressionMethod, BytesOf(a, fileData))

-----------------------------------------------------------------------------
(* The RO-Crate document *)

\* _crate of a ROCrateZipExplorer: undefined, null, or a crate with the
\* path it was read from and its entities (id, name, description).
UndefinedCrate == [state |-> "undefined", path |-> <<>>, graph |-> <<>>]
NullCrate == [state |-> "null", path |-> <<>>, graph |-> <<>>]
Truthy(c) == c.state = "crate"

\* A property of an entity: a string, a value of another type, or absent.
StringValue(v) == [type |-> "string", val |-> v]
NumberValue(v) == [type |-> "number", val |-> v]

\* The text "{1}" stands for a document with two entities: "d/a" with the
\* name "A" and a description that is no string, and the crate's file with
\* a name that is no string and the description "the crate".
CrateDocument == <<123, 49, 125>>
CrateGraph ==
  << [id |-> <<100, 47, 97>>, name |-> StringValue(<<65>>),
      description |-> NumberValue("1")],
     [id |-> ROCRATE_METADATA_FILENAME, name |-> NumberValue(<<49>>),
      description |-> StringValue("the crate")] >>

\* TextDecoder, JSON.parse and new ROCrate(json) on the bytes of the crate
\* entry: a text that is no JSON object is a SyntaxError; every other
\* document of the model than CrateDocument describes no entity.
ParseCrate(path, bytes) ==
  LET text == Utf8Decode(bytes)
  IN  IF Len(text) >= 2 /\ text[1] = 123 /\ text[Len(text)] = 125
      THEN Ok([state |-> "crate", path |-> path,
               graph |-> IF text = CrateDocument THEN CrateGraph ELSE <<>>])
      ELSE Fail(ErrJSON)

\* crate.getEntity(id): the index of the entity in the graph, 0 if none.
getEntity(c, id) ==
  LET hits == {k \in 1..Len(c.graph) : c.graph[k].id = id}
  IN  IF hits = {} THEN 0 ELSE CHOOSE k \in hits : TRUE

-----------------------------------------------------------------------------
(* State *)

VARIABLES
  src,              \* the source the explorers are built over (index in Archives)
  remote,           \* TRUE: a URL (RemoteZipService), FALSE: a File (LocalZipService)
  rangeSupport,     \* RemoteZipService.rangeSupport
  eocdData,         \* AbstractZipService._eocdData
  heap,             \* the ZipArchive objects created so far; an object is its index
  zipArchive,       \* ZipExplorer._zipArchive: 0 is undefined
  crate,            \* ROCrateZipExplorer._crate
  fileMetadataMap,  \* fileMetadataMap of each explorer
  calls,            \* the asynchronous calls issued, with where each stands
  reads,            \* the ranged reads issued on the source
  observed          \* what the last synchronous accessor gave

vars == <<src, remote, rangeSupport, eocdData, heap, zipArchive, crate,
          fileMetadataMap, calls, reads, observed>>

\* Everything but the records of what the caller did and saw.
progVars == <<src, remote, rangeSupport, eocdData, heap, zipArchive, crate, fileMetadataMap>>

\* "zip" is a ZipExplorer over the source, "roc" a ROCrateZipExplorer
\* constructed over that ZipExplorer.
Explorers == {"zip", "roc"}

NoRangeSupport == [set |-> FALSE, contentLength |-> 0]
NoEOCD == [set |-> FALSE, dataView |-> Buffer(0, 0), offset |-> 0, isZip64 |-> FALSE]
EmptyMap == [p \in {} |-> 0]
NoResult == Fail(NoValue)
NoObs == [get |-> "none", on |-> "zip", entry |-> 0, res |-> NoResult]

Failed(r, e) == ~r.ok /\ r.err = e

\* get zipSize of the two services
zipSize(a, isRemote, rs) ==
  IF isRemote THEN (IF rs.set THEN rs.contentLength ELSE 0) ELSE SourceSize(a)

\* RemoteZipService.doOpen follows the redirects of the URL and asks for
\* its range support; LocalZipService.doOpen does nothing.
doOpen(a, isRemote) ==
  IF isRemote THEN {Ok([set |-> TRUE, contentLength |-> SourceSize(a)]), Fail(ErrFetch)}
  ELSE {Ok(NoRangeSupport)}

\* An ensureZipArchiveOpen that reports the missing crate instead.
ensureZipArchiveOpenOtherError(za) == IF za = 0 THEN Fail(ErrNoCrate) ELSE Ok(za)

\* ZipExplorer.ensureZipArchiveOpen (AbstractZipExplorer delegates to it)
ensureZipArchiveOpen(za) == IF za = 0 THEN Fail(ErrNotOpen) ELSE Ok(za)

Init ==
  /\ src \in 1..Len(Archives)
  /\ remote \in BOOLEAN
  /\ remote => src \in RemoteSources
  /\ rangeSupport = NoRangeSupport
  /\ eocdData = NoEOCD
  /\ heap = <<>>
  /\ zipArchive = 0
  /\ crate = UndefinedCrate
  /\ fileMetadataMap = [x \in Explorers |-> EmptyMap]
  /\ calls = <<>>
  /\ reads = <<>>
  /\ observed = NoObs

-----------------------------------------------------------------------------
(* Calls.  A call runs from one await to the next in one step. *)

\* No entry: the call was given none.
NoEntry ==
  [createZipEntry([fileName |-> <<>>, headerOffset |-> 0, compressionMethod |-> 0,
                   compressedSize |-> 0, uncompressedSize |-> 0, dateTime |-> 0])
     EXCEPT !.type = "none"]

\* (file: the entry the call was given, the one at index entry of the
\* archive object arch, or for arch = 0 one that another explorer has read;
\* map: what an extractMetadata has left in the map of its explorer when it
\* resolves; url: currentUrl of a followRedirects.)
NewCall(op, on, arch, entry) ==
  [op |-> op, on |-> on, arch |-> arch, entry |-> entry, file |-> NoEntry, pc |-> "start",
   req |-> Buffer(0, 0), buf |-> Buffer(0, 0), val |-> 0, crate |-> UndefinedCrate,
   exact |-> TRUE, map |-> EmptyMap, url |-> <<>>, res |-> NoResult]

\* The promise of the call settles with r.
Done(c, r) == [c EXCEPT !.pc = "done", !.res = r]
\* The call awaits the ranged read of range.
Await(c, pc, range) == [c EXCEPT !.pc = pc, !.req = range]
\* The awaited read of the call has given buf.
Received(c, buf) == [c EXCEPT !.buf = buf, !.exact = c.exact /\ buf = c.req]

\* The call i becomes c, and has issued the read it awaits if reading.
Step(i, c, reading) ==
  /\ calls' = IF i > Len(calls) THEN Append(calls, c) ELSE [calls EXCEPT ![i] = c]
  /\ reads' = IF reading
              THEN Append(reads, [call |-> i, start |-> c.req.start, len |-> c.req.len])
              ELSE reads
  /\ observed' = NoObs

Idle == \A i \in 1..Len(calls) : calls[i].pc = "done"

\* The caller awaits each call before it makes the next.
CanCall == Len(calls) < MaxCalls /\ Idle

\* A caller that does not await a call before it makes the next.
CanOverlap == Len(calls) < MaxCalls

\* The requests of the calls so far that the network has failed.
FailedRequests ==
  Cardinality({i \in 1..Len(calls) : calls[i].pc = "done" /\ Failed(calls[i].res, ErrFetch)})

\* The answers a request can get: the network fails MaxFailures requests at
\* most; an answer that is an error whatever the network does stays.
Answers(outcomes) ==
  IF FailedRequests < MaxFailures \/ \A r \in outcomes : ~r.ok THEN outcomes
  ELSE {r \in outcomes : r.ok}

\* The File entries of an index.
FileIndexes(entries) == {k \in 1..Len(entries) : entries[k].type = "File"}

\* What open() resolves with on the source a when its reads give the bytes
\* of the source: the entries, or its error.
OpenOf(a) ==
  LET window == EOCDRange(SourceSize(a))
      eocd == EndOfCentralDirectoryData(a, Buffer(window.start, window.len))
  IN  IF ~eocd.ok THEN eocd
      ELSE LET cd == CDRange(a, eocd.val)
           IN  IF ~cd.ok THEN cd
               ELSE getZipEntries(a, (CHOOSE r \in LocalRange(a, cd.val.start, cd.val.len) :
                                        TRUE).val)

\* What another explorer over source s has read with its open().
OpenedElsewhere == [s \in 1..Len(Archives) |-> OpenOf(Archives[s])]

\* The entry a call was given.
TheEntry(c) == c.file

-----------------------------------------------------------------------------
(* open *)

\* An open that does not look at _zipArchive: every call opens anew.
OpenStartAnew(c, za) == [c EXCEPT !.pc = "doOpen"]

\* An open that is run once: after an open has ended, however it has ended,
\* the next one returns what is stored.
OpenStartOnce(c, za) ==
  IF za # 0 \/ \E i \in 1..Len(calls) : calls[i].op = "open" /\ calls[i].pc = "done"
  THEN Done(c, Ok(za))
  ELSE [c EXCEPT !.pc = "doOpen"]

\* An open of the wrapper that does not ask the wrapped explorer.
OpenStartOfWrapper(c, za) ==
  IF za # 0 /\ c.on = "zip" THEN Done(c, Ok(za)) ELSE [c EXCEPT !.pc = "doOpen"]

\* ZipExplorer.open, up to the first await of AbstractZipService.open.
OpenStart(c, za) ==
  IF za # 0 THEN Done(c, Ok(za)) ELSE [c EXCEPT !.pc = "doOpen"]

\* open() is called on the explorer on.
OpenIssued(on) ==
  /\ Step(Len(calls) + 1, OpenStart(NewCall("open", on, 0, 0), zipArchive), FALSE)
  /\ UNCHANGED progVars

OpenCall(on) == CanCall /\ OpenIssued(on)

\* open() is called while earlier calls may still be awaiting their reads.
OpenOverlapping(on) == CanOverlap /\ OpenIssued(on)

\* doOpen has settled; loadEOCDData asks for the EOCD window.
DoOpen(i) ==
  /\ calls[i].pc = "doOpen"
  /\ \E r \in Answers(doOpen(Archives[src], remote)) :
       IF r.ok
       THEN /\ rangeSupport' = IF remote THEN r.val ELSE rangeSupport
            /\ Step(i, Await(calls[i], "loadEOCD",
                             EOCDRange(zipSize(Archives[src], remote, r.val))), TRUE)
       ELSE /\ rangeSupport' = rangeSupport
            /\ Step(i, Done(calls[i], r), FALSE)
  /\ UNCHANGED <<src, remote, eocdData, heap, zipArchive, crate, fileMetadataMap>>

\* The EOCD window has arrived: _eocdData is set, getZipEntries asks for
\* the central directory.
LoadEOCD(i) ==
  /\ calls[i].pc = "loadEOCD"
  /\ \E r \in Answers(getRange(Archives[src], remote, calls[i].req.start, calls[i].req.len)) :
       IF ~r.ok
       THEN /\ eocdData' = eocdData
            /\ Step(i, Done(calls[i], r), FALSE)
       ELSE LET c == Received(calls[i], r.val)
                e == EndOfCentralDirectoryData(Archives[src], r.val)
                cd == CDRange(Archives[src], e.val)
            IN  IF ~e.ok
                THEN /\ eocdData' = eocdData
                     /\ Step(i, Done(c, e), FALSE)
                ELSE /\ eocdData' = [set |-> TRUE, dataView |-> e.val.dataView,
                                     offset |-> e.val.offset, isZip64 |-> e.val.isZip64]
                     /\ IF cd.ok
                        THEN Step(i, Await(c, "readCD", Buffer(cd.val.start, cd.val.len)), TRUE)
                        ELSE Step(i, Done(c, cd), FALSE)
  /\ UNCHANGED <<src, remote, rangeSupport, heap, zipArchive, crate, fileMetadataMap>>

\* The ZipArchive object open() builds.
NewArchive(entries, size, isZip64) ==
  [entries |-> entries, size |-> size, isZip64 |-> isZip64]

\* The central directory has arrived: the entries are parsed, the archive
\* object is built, _eocdData is dropped.
ReadCD(i) ==
  /\ calls[i].pc = "readCD"
  /\ \E r \in Answers(getRange(Archives[src], remote, calls[i].req.start, calls[i].req.len)) :
       IF ~r.ok
       THEN /\ Step(i, Done(calls[i], r), FALSE)
            /\ UNCHANGED <<eocdData, heap>>
       ELSE LET c == Received(calls[i], r.val)
                entries == getZipEntries(Archives[src], r.val)
            IN  IF ~entries.ok
                THEN /\ Step(i, Done(c, entries), FALSE)
                     /\ UNCHANGED <<eocdData, heap>>
                ELSE IF ~eocdData.set
                THEN /\ Step(i, Done(c, Fail(ErrEOCDNotLoaded)), FALSE)
                     /\ UNCHANGED <<eocdData, heap>>
                ELSE /\ heap' = Append(heap, NewArchive(entries.val,
                                         zipSize(Archives[src], remote, rangeSupport),
                                         eocdData.isZip64))
                     /\ eocdData' = NoEOCD
                     /\ Step(i, [c EXCEPT !.pc = "assign", !.val = Len(heap) + 1], FALSE)
  /\ UNCHANGED <<src, remote, rangeSupport, zipArchive, crate, fileMetadataMap>>

\* zipService.open() has resolved: ZipExplorer.open stores the object and
\* returns it.
Assign(i) ==
  /\ calls[i].pc = "assign"
  /\ zipArchive' = calls[i].val
  /\ Step(i, Done(calls[i], Ok(calls[i].val)), FALSE)
  /\ UNCHANGED <<src, remote, rangeSupport, eocdData, heap, crate, fileMetadataMap>>

-----------------------------------------------------------------------------
(* extractFile *)

\* What the awaiting code does with the outcome r of extractFile: the
\* caller of getFileContents gets it; extractROCrateMetadata decodes and
\* parses the bytes, and loadMetadata then awaits the crate.
Extracted(c, r) ==
  IF c.op = "extractFile" \/ ~r.ok THEN Done(c, r)
  ELSE LET parsed == ParseCrate(TheEntry(c).path, r.val)
       IN  IF parsed.ok THEN [c EXCEPT !.pc = "crateLoaded", !.crate = parsed.val]
           ELSE Done(c, parsed)

\* An extractFile that reads whatever entry it is given.
ExtractStartAnyEntry(c, file) == Await(c, "header", Buffer(file.headerOffset, 30))

\* AbstractZipService.extractFile, up to its first await.
ExtractStart(c, file) ==
  IF file.type = "Directory" THEN Done(c, Fail(ErrDirectory))
  ELSE Await(c, "header", Buffer(file.headerOffset, 30))

\* getFileContents(entry) / entry.data() on an entry of the opened archive.
ExtractFileCall(k) ==
  /\ CanCall
  /\ zipArchive # 0
  /\ k \in 1..Len(heap[zipArchive].entries)
  /\ LET c == ExtractStart([NewCall("extractFile", "zip", zipArchive, k)
                             EXCEPT !.file = heap[zipArchive].entries[k]],
                           heap[zipArchive].entries[k])
     IN  Step(Len(calls) + 1, c, c.pc = "header")
  /\ UNCHANGED progVars

\* getFileContents(entry) with the first File entry of what an open() has
\* read.
ExtractGiven(read) ==
  /\ read.ok
  /\ FileIndexes(read.val) # {}
  /\ LET entries == read.val
         k == CHOOSE x \in FileIndexes(entries) : \A y \in FileIndexes(entries) : x <= y
         c == ExtractStart([NewCall("extractFile", "zip", 0, k) EXCEPT !.file = entries[k]],
                           entries[k])
     IN  Step(Len(calls) + 1, c, c.pc = "header")

\* getFileContents(entry) on the ZipExplorer while it holds no archive, with
\* an entry that another explorer has read from the same source.
ExtractFileUnopenedCall ==
  /\ CanCall
  /\ zipArchive = 0
  /\ ExtractGiven(OpenedElsewhere[src])
  /\ UNCHANGED progVars

\* The local header has arrived: the payload is asked for.
FileHeader(i) ==
  /\ calls[i].pc = "header"
  /\ \E r \in Answers(getRange(Archives[src], remote, calls[i].req.start, calls[i].req.len)) :
       IF ~r.ok THEN Step(i, Extracted(calls[i], r), FALSE)
       ELSE LET c == Received(calls[i], r.val)
                off == calculateFileDataOffset(Archives[src], TheEntry(c), r.val)
            IN  IF off.ok
                THEN Step(i, Await(c, "data", Buffer(off.val, TheEntry(c).compressSize)), TRUE)
                ELSE Step(i, Extracted(c, off), FALSE)
  /\ UNCHANGED progVars

\* The payload has arrived.
FileData(i) ==
  /\ calls[i].pc = "data"
  /\ \E r \in Answers(getRange(Archives[src], remote, calls[i].req.start, calls[i].req.len)) :
       IF ~r.ok THEN Step(i, Extracted(calls[i], r), FALSE)
       ELSE LET c == Received(calls[i], r.val)
            IN  Step(i, Extracted(c, ExtractResult(Archives[src], TheEntry(c), r.val)), FALSE)
  /\ UNCHANGED progVars

-----------------------------------------------------------------------------
(* extractMetadata *)

\* entry.path.split("/").pop()
LastSegment(path) ==
  LET slashes == {k \in 1..Len(path) : path[k] = Slash}
  IN  IF slashes = {} THEN path
      ELSE SubSeq(path, (CHOOSE k \in slashes : \A j \in slashes : j <= k) + 1, Len(path))

extractBasicFileMetadata(arch, k) ==
  LET entry == heap[arch].entries[k]
  IN  [path |-> entry.path, entry |-> [arch |-> arch, index |-> k],
       name |-> LastSegment(entry.path), size |-> entry.fileSize,
       dateTime |-> entry.dateTime, description |-> NoValue]

\* An extractPartialFileMetadata that does not look at the crate.
extractPartialFileMetadataOfEntry(on, cr, arch, k) == extractBasicFileMetadata(arch, k)

\* The default returns the basic metadata; ROCrateZipExplorer takes name and
\* description from the entity of the crate with the entry's path as id.
\* (name and description when they are strings, else those of the basic
\* metadata).
extractPartialFileMetadata(on, cr, arch, k) ==
  LET base == extractBasicFileMetadata(arch, k)
      e == getEntity(cr, base.path)
  IN  IF on = "zip" \/ e = 0 THEN base
      ELSE LET entity == cr.graph[e]
           IN  [base EXCEPT
                  !.name = IF entity.name.type = "string" THEN entity.name.val
                           ELSE base.name,
                  !.description = IF entity.description.type = "string"
                                  THEN entity.description.val
                                  ELSE base.description]

\* combineDefined(target, source): the values of source replace those of
\* target, but for the values that are undefined.
combineDefined(target, source) ==
  [f \in DOMAIN target |->
     IF f = "description" /\ source.description = NoValue THEN target[f] ELSE source[f]]

extractMetadataFromEntry(on, cr, arch, k) ==
  combineDefined(extractBasicFileMetadata(arch, k), extractPartialFileMetadata(on, cr, arch, k))

\* A loop that sets no record.
FilledMapUntouched(on, cr, arch, map) == map

\* A loop that runs in the first extractMetadata of an explorer only.
FilledMapOfFirstCall(on, cr, arch, map) ==
  IF \E i \in 1..Len(calls) :
       calls[i].op = "extractMetadata" /\ calls[i].on = on /\ calls[i].pc = "done"
         /\ calls[i].res.ok
  THEN map
  ELSE [p \in {heap[arch].entries[k].path : k \in FileIndexes(heap[arch].entries)} |->
          extractMetadataFromEntry(on, cr, arch,
            CHOOSE k \in FileIndexes(heap[arch].entries) : heap[arch].entries[k].path = p)]

\* The map after the loop of extractMetadata over the entries: every File
\* entry sets the record of its path, a later one over an earlier one.
FilledMap(on, cr, arch, map) ==
  LET entries == heap[arch].entries
      files == FileIndexes(entries)
      paths == {entries[k].path : k \in files}
      last(p) == CHOOSE k \in files :
                   /\ entries[k].path = p
                   /\ \A j \in files : entries[j].path = p => j <= k
  IN  [p \in (DOMAIN map) \cup paths |->
         IF p \in paths THEN extractMetadataFromEntry(on, cr, arch, last(p)) ELSE map[p]]

\* loadMetadata, up to its first await: nothing for a ZipExplorer; a
\* ROCrateZipExplorer without a crate looks the crate entry up and reads it.
LoadStart(c, za, cr) ==
  IF c.on = "zip" \/ Truthy(cr) THEN [c EXCEPT !.pc = "fill"]
  ELSE IF za = 0 THEN Done(c, Fail(ErrNotOpen))
  ELSE LET k == findFileByName(heap[za].entries, ROCRATE_METADATA_FILENAME)
       IN  IF k = 0 THEN [c EXCEPT !.pc = "crateLoaded", !.crate = NullCrate]
           ELSE ExtractStart([c EXCEPT !.arch = za, !.entry = k, !.file = heap[za].entries[k]],
                             heap[za].entries[k])

\* extractMetadata, up to its await: the map is cleared, loadMetadata runs.
ExtractMetadataIssued(on) ==
  /\ fileMetadataMap' = [fileMetadataMap EXCEPT ![on] = EmptyMap]
  /\ LET c == LoadStart(NewCall("extractMetadata", on, 0, 0), zipArchive, crate)
     IN  Step(Len(calls) + 1, c, c.pc = "header")
  /\ UNCHANGED <<src, remote, rangeSupport, eocdData, heap, zipArchive, crate>>

ExtractMetadataCall(on) == CanCall /\ ExtractMetadataIssued(on)

\* extractMetadata() is called while earlier calls may still be in flight.
ExtractMetadataOverlapping(on) == CanOverlap /\ ExtractMetadataIssued(on)

\* extractROCrateMetadata has resolved: loadMetadata stores the crate.
CrateLoaded(i) ==
  /\ calls[i].pc = "crateLoaded"
  /\ crate' = calls[i].crate
  /\ Step(i, [calls[i] EXCEPT !.pc = "fill"], FALSE)
  /\ UNCHANGED <<src, remote, rangeSupport, eocdData, heap, zipArchive, fileMetadataMap>>

\* A loop that fills one map shared by the explorers.
FillOfSharedMap(i) ==
  /\ calls[i].pc = "fill"
  /\ LET on == calls[i].on
         open == ensureZipArchiveOpen(zipArchive)
     IN  IF ~open.ok
         THEN /\ Step(i, Done(calls[i], open), FALSE)
              /\ UNCHANGED fileMetadataMap
         ELSE IF on = "roc" /\ ~Truthy(crate) /\ FileIndexes(heap[zipArchive].entries) # {}
         THEN /\ Step(i, Done(calls[i], Fail(ErrNoCrate)), FALSE)
              /\ UNCHANGED fileMetadataMap
         ELSE LET map == FilledMap(on, crate, zipArchive, fileMetadataMap[on])
              IN  /\ fileMetadataMap' = [x \in Explorers |-> map]
                  /\ Step(i, Done([calls[i] EXCEPT !.map = map], Ok(0)), FALSE)
  /\ UNCHANGED <<src, remote, rangeSupport, eocdData, heap, zipArchive, crate>>

\* loadMetadata has resolved: the loop over this.entries.  The entries
\* getter throws on an explorer that is not open, the crate getter (in
\* extractPartialFileMetadata of the first File entry) without a crate.
Fill(i) ==
  /\ calls[i].pc = "fill"
  /\ LET on == calls[i].on
         open == ensureZipArchiveOpen(zipArchive)
     IN  IF ~open.ok
         THEN /\ Step(i, Done(calls[i], open), FALSE)
              /\ UNCHANGED fileMetadataMap
         ELSE IF on = "roc" /\ ~Truthy(crate) /\ FileIndexes(heap[zipArchive].entries) # {}
         THEN /\ Step(i, Done(calls[i], Fail(ErrNoCrate)), FALSE)
              /\ UNCHANGED fileMetadataMap
         ELSE LET map == FilledMap(on, crate, zipArchive, fileMetadataMap[on])
              IN  /\ fileMetadataMap' = [fileMetadataMap EXCEPT ![on] = map]
                  /\ Step(i, Done([calls[i] EXCEPT !.map = map], Ok(0)), FALSE)
  /\ UNCHANGED <<src, remote, rangeSupport, eocdData, heap, zipArchive, crate>>

-----------------------------------------------------------------------------
(* The synchronous accessors *)

\* get entries / get zipArchive (of either explorer): the archive object
entriesGetter(za) == ensureZipArchiveOpen(za)
zipArchiveGetter(za) == ensureZipArchiveOpen(za)

\* get hasCrate
hasCrate(za) ==
  IF ensureZipArchiveOpen(za).ok
  THEN Ok(findFileByName(heap[za].entries, ROCRATE_METADATA_FILENAME) # 0)
  ELSE ensureZipArchiveOpen(za)

\* get crate
crateGetter(cr, za) ==
  IF Truthy(cr) THEN Ok(cr)
  ELSE IF ensureZipArchiveOpen(za).ok THEN Fail(ErrNoCrate)
  ELSE ensureZipArchiveOpen(za)

getFileEntryMetadata(map, path) ==
  IF path \in DOMAIN map THEN Ok(map[path]) ELSE Fail(ErrNoMetadata)

\* The caller reads an accessor between two calls.  A read changes nothing,
\* so a second read in the same state would give what the first gave: the
\* model follows one read.
Seen(g, on, k, r) ==
  /\ observed = NoObs
  /\ observed' = [get |-> g, on |-> on, entry |-> k, res |-> r]
  /\ UNCHANGED <<progVars, calls, reads>>

Observe(g, on, k, r) == Idle /\ Seen(g, on, k, r)

GetEntries(on) == Observe("entries", on, 0, entriesGetter(zipArchive))
GetZipArchive(on) == Observe("zipArchive", on, 0, zipArchiveGetter(zipArchive))
GetHasCrate == Observe("hasCrate", "roc", 0, hasCrate(zipArchive))
GetCrate == Observe("crate", "roc", 0, crateGetter(crate, zipArchive))

\* getFileEntryMetadata(entry) with a File entry of the opened archive
GetFileEntryMetadata(on, k) ==
  /\ zipArchive # 0
  /\ k \in FileIndexes(heap[zipArchive].entries)
  /\ Observe("getFileEntryMetadata", on, k,
             getFileEntryMetadata(fileMetadataMap[on], heap[zipArchive].entries[k].path))

\* getFileEntryMetadata(entry) by a task that runs while calls are in flight
GetFileEntryMetadataOverlapping(on, k) ==
  /\ zipArchive # 0
  /\ k \in FileIndexes(heap[zipArchive].entries)
  /\ Seen("getFileEntryMetadata", on, k,
          getFileEntryMetadata(fileMetadataMap[on], heap[zipArchive].entries[k].path))

\* What a caller passes to the constructor of a delegating explorer (new
\* ROCrateZipExplorer(x)): a File, a URL string, the ZipExplorer, or the
\* ROCrateZipExplorer (an AbstractZipExplorer that is no ZipExplorer).
ConstructorArguments == <<"File", "string", "ZipExplorer", "ROCrateZipExplorer">>

\* isZipExplorer: source instanceof ZipExplorer
isZipExplorer(source) == source = "ZipExplorer"

\* validateUrl: new URL(url) throws for what is no URL; an object that is
\* no string is converted to a text like "[object Object]" first.
validateUrl(url) == IF url = "string" THEN Ok(url) ELSE Fail(ErrInvalidUrl)

\* zipServiceFactory, with the constructor of RemoteZipService
zipServiceFactory(source) ==
  IF source = "File" THEN Ok("LocalZipService")
  ELSE IF validateUrl(source).ok THEN Ok("RemoteZipService")
  ELSE validateUrl(source)

\* The constructor of AbstractZipExplorer: this.explorer is the explorer
\* given, or a new ZipExplorer over the source given (service: the service
\* made for that ZipExplorer, "none" when none is made).
NewAbstractZipExplorer(sourceOrExplorer) ==
  IF isZipExplorer(sourceOrExplorer)
  THEN Ok([explorer |-> sourceOrExplorer, service |-> "none"])
  ELSE LET zipService == zipServiceFactory(sourceOrExplorer)
       IN  IF zipService.ok
           THEN Ok([explorer |-> "new ZipExplorer", service |-> zipService.val])
           ELSE zipService

\* new ROCrateZipExplorer(sourceOrExplorer); the constructor reads no state
\* of the explorers, the model runs it before the first call.
Construct(n) ==
  /\ calls = <<>>
  /\ Observe("new", "roc", n, NewAbstractZipExplorer(ConstructorArguments[n]))

\* The names the caller looks for with zipArchive.findFileByName: "a", the
\* crate's file name, "/".
SearchedNames == << <<97>>, ROCRATE_METADATA_FILENAME, <<Slash>> >>

\* zipArchive.findFileByName(fileName) on the opened archive
GetFindFileByName(n) ==
  /\ zipArchive # 0
  /\ Observe("findFileByName", "zip", n,
             Ok(findFileByName(heap[zipArchive].entries, SearchedNames[n])))

-----------------------------------------------------------------------------
(* followRedirects (utils), which RemoteZipService.doOpen awaits first *)

\* "http"
HTTP == <<104, 116, 116, 112>>
\* "http://h", the origin of the URLs of the model
Host == HTTP \o <<58, Slash, Slash, 104>>

\* location.startsWith(prefix)
StartsWith(text, prefix) ==
  Len(prefix) <= Len(text) /\ SubSeq(text, 1, Len(prefix)) = prefix

\* The text starts with a scheme: letters, then ":" (58).  (An absolute URL;
\* a text without a scheme is a relative reference.)
HasScheme(text) ==
  \E k \in 2..Len(text) :
    /\ text[k] = 58
    /\ \A j \in 1..(k - 1) : text[j] \in (65..90) \cup (97..122)

\* Scheme and authority of an absolute URL: the text before the first "/"
\* behind "://".
Origin(url) ==
  LET c == CHOOSE k \in 1..Len(url) : url[k] = 58 /\ \A j \in 1..(k - 1) : url[j] # 58
      ends == {k \in (c + 3)..Len(url) : url[k] = Slash}
  IN  IF ends = {} THEN url
      ELSE SubSeq(url, 1, (CHOOSE k \in ends : \A j \in ends : k <= j) - 1)

\* new URL(location, base).toString() for the references of the model: an
\* absolute URL is taken as it is, a path that starts with "/" replaces the
\* path of base, any other path replaces the last segment of base.  (No
\* reference of the model has "..", a query or a fragment.)
ResolveUrl(location, base) ==
  IF HasScheme(location) THEN location
  ELSE IF location # <<>> /\ location[1] = Slash THEN Origin(base) \o location
  ELSE LET slashes == {k \in 1..Len(base) : base[k] = Slash}
       IN  SubSeq(base, 1, CHOOSE k \in slashes : \A j \in slashes : j <= k) \o location

\* No Location header (headers.get gives null).
NoLocation == <<>>

\* What the server answers to a HEAD request: status and Location header.
Response(path, status, location) ==
  [url |-> Host \o path, status |-> status, location |-> location]

Responses ==
  << \* "/z": the archive
     Response(<<Slash, 122>>, 200, NoLocation),
     \* "/a": moved to the absolute URL "http://h/z"
     Response(<<Slash, 97>>, 301, Host \o <<Slash, 122>>),
     \* "/d/r": moved to "z", relative to "/d/"
     Response(<<Slash, 100, Slash, 114>>, 399, <<122>>),
     \* "/d/z": an archive
     Response(<<Slash, 100, Slash, 122>>, 299, NoLocation),
     \* "/d/s": moved to "/a", which is moved again
     Response(<<Slash, 100, Slash, 115>>, 307, <<Slash, 97>>),
     \* "/m": a redirect without Location
     Response(<<Slash, 109>>, 300, NoLocation),
     \* "/c" and "/e": each moved to the other
     Response(<<Slash, 99>>, 302, <<Slash, 101>>),
     Response(<<Slash, 101>>, 302, Host \o <<Slash, 99>>),
     \* "/x": moved to "http/z", relative to "/"
     Response(<<Slash, 120>>, 301, HTTP \o <<Slash, 122>>),
     \* "/http/z": an archive
     Response(<<Slash>> \o HTTP \o <<Slash, 122>>, 200, NoLocation),
     \* "/n": not found
     Response(<<Slash, 110>>, 400, NoLocation) >>

\* The answer of the server for a URL; 404 for a URL it does not know.
ServerResponse(url) ==
  IF \E k \in 1..Len(Responses) : Responses[k].url = url
  THEN Responses[CHOOSE k \in 1..Len(Responses) : Responses[k].url = url]
  ELSE [url |-> url, status |-> 404, location |-> NoLocation]

\* fetch(currentUrl, {method: "HEAD", redirect: "manual"}): a text that is
\* no absolute URL is a TypeError (as fetch has it outside a document);
\* else the response of the server, or a failure of the network.
fetchHead(url) ==
  IF ~HasScheme(url) THEN {Fail(ErrParseUrl)}
  ELSE {Ok(ServerResponse(url)), Fail(ErrFetch)}

isRedirectStatus(status) == status >= 300 /\ status < 400

\* followRedirects(url), up to its first await: the HEAD request to url.
FollowRedirectsCall(u) ==
  /\ CanCall
  /\ Step(Len(calls) + 1,
          [NewCall("followRedirects", "zip", 0, u) EXCEPT !.pc = "head",
                                                          !.url = Responses[u].url],
          FALSE)
  /\ UNCHANGED progVars

\* The response to the HEAD request has arrived: one round of the loop.
HeadResponse(i) ==
  /\ calls[i].pc = "head"
  /\ \E r \in Answers(fetchHead(calls[i].url)) :
       IF ~r.ok THEN Step(i, Done(calls[i], r), FALSE)
       ELSE IF isRedirectStatus(r.val.status)
       THEN LET location == r.val.location
                locationIsRelative == ~StartsWith(location, HTTP)
            IN  IF location # NoLocation
                THEN Step(i, [calls[i] EXCEPT !.url = IF locationIsRelative
                                                      THEN ResolveUrl(location, calls[i].url)
                                                      ELSE location],
                          FALSE)
                ELSE Step(i, Done(calls[i], Fail(ErrRedirect)), FALSE)
       ELSE Step(i, Done(calls[i], Ok(calls[i].url)), FALSE)
  /\ UNCHANGED progVars

-----------------------------------------------------------------------------
(* The behaviours *)

MaxEntries == 3

Next ==
  \/ \E on \in Explorers : OpenCall(on)
  \/ \E k \in 1..MaxEntries : ExtractFileCall(k)
  \/ ExtractFileUnopenedCall
  \/ \E on \in Explorers : ExtractMetadataCall(on)
  \/ \E i \in 1..Len(calls) : DoOpen(i)
  \/ \E i \in 1..Len(calls) : LoadEOCD(i)
  \/ \E i \in 1..Len(calls) : ReadCD(i)
  \/ \E i \in 1..Len(calls) : Assign(i)
  \/ \E i \in 1..Len(calls) : FileHeader(i)
  \/ \E i \in 1..Len(calls) : FileData(i)
  \/ \E i \in 1..Len(calls) : CrateLoaded(i)
  \/ \E i \in 1..Len(calls) : Fill(i)
  \/ \E on \in Explorers : GetEntries(on)
  \/ \E on \in Explorers : GetZipArchive(on)
  \/ GetHasCrate
  \/ GetCrate
  \/ \E on \in Explorers, k \in 1..MaxEntries : GetFileEntryMetadata(on, k)
  \/ \E n \in 1..Len(SearchedNames) : GetFindFileByName(n)
  \/ \E n \in 1..Len(ConstructorArguments) : Construct(n)

\* One caller that awaits every call before the next call or accessor.
Spec == Init /\ [][Next]_vars

\* Tasks that call open() and extractMetadata() on the two explorers without
\* awaiting the calls made before, and read the metadata of an entry between
\* any two steps.  A call runs from one await to the next without
\* interruption, as the event loop has it.
NextOverlapping ==
  \/ \E on \in Explorers : OpenOverlapping(on)
  \/ \E on \in Explorers : ExtractMetadataOverlapping(on)
  \/ \E i \in 1..Len(calls) : DoOpen(i)
  \/ \E i \in 1..Len(calls) : LoadEOCD(i)
  \/ \E i \in 1..Len(calls) : ReadCD(i)
  \/ \E i \in 1..Len(calls) : Assign(i)
  \/ \E i \in 1..Len(calls) : FileHeader(i)
  \/ \E i \in 1..Len(calls) : FileData(i)
  \/ \E i \in 1..Len(calls) : CrateLoaded(i)
  \/ \E i \in 1..Len(calls) : Fill(i)
  \/ \E on \in Explorers, k \in 1..MaxEntries : GetFileEntryMetadataOverlapping(on, k)

\* The source the overlapping calls are made on: the RO-Crate archive, given
\* as a File.
OverlappingSources == {1}

InitOverlapping == Init /\ src \in OverlappingSources /\ ~remote

SpecOverlapping == InitOverlapping /\ [][NextOverlapping]_vars

\* followRedirects on the URLs of the server, one call after the other.
NextRedirects ==
  \/ \E u \in 1..Len(Responses) : FollowRedirectsCall(u)
  \/ \E i \in 1..Len(calls) : HeadResponse(i)

\* The explorer is given a URL.
InitRedirects == Init /\ src = 1 /\ remote

\* The network settles every request, and the event loop then runs the code
\* that awaits it.
SpecRedirects == InitRedirects /\ [][NextRedirects]_vars /\ WF_vars(NextRedirects)

-----------------------------------------------------------------------------
(* Properties *)

IsOpen(c) == c.op = "open"
Resolved(c) == c.pc = "done" /\ c.res.ok
Rejected(c) == c.pc = "done" /\ ~c.res.ok

\* Some open() has resolved.
OpenResolved == \E i \in 1..Len(calls) : IsOpen(calls[i]) /\ Resolved(calls[i])

\* C1: once an open() has resolved, every later open(), on the ZipExplorer
\* or on the explorer that delegates to it, resolves, and to the very same
\* ZipArchive object.
C1_LaterOpenSameObject ==
  \A i, j \in 1..Len(calls) :
    (i < j /\ IsOpen(calls[i]) /\ Resolved(calls[i]) /\ IsOpen(calls[j]) /\ calls[j].pc = "done")
      => (calls[j].res.ok /\ calls[j].res.val = calls[i].res.val)

\* An open on the ZipExplorer has resolved, and after it one on the
\* ROCrateZipExplorer built over it.
C1_Witness ==
  \E i, j \in 1..Len(calls) :
    /\ i < j
    /\ IsOpen(calls[i]) /\ calls[i].on = "zip" /\ Resolved(calls[i])
    /\ IsOpen(calls[j]) /\ calls[j].on = "roc" /\ Resolved(calls[j])

\* C2: as long as no open() has resolved, the accessors entries, zipArchive
\* and hasCrate, of the ZipExplorer and of the ROCrateZipExplorer over it,
\* throw "Please call open() before accessing the ZIP archive", and leave
\* the state of the explorers and of the service as it was.
C2_NotOpenAccessors ==
  [][ (/\ observed' # NoObs
       /\ observed'.get \in {"entries", "zipArchive", "hasCrate"}
       /\ ~OpenResolved)
      => (Failed(observed'.res, ErrNotOpen) /\ UNCHANGED progVars) ]_vars

\* hasCrate has thrown on the ROCrateZipExplorer after an open() that failed.
C2_Witness ==
  /\ observed.get = "hasCrate" /\ observed.on = "roc"
  /\ Failed(observed.res, ErrNotOpen)
  /\ \E i \in 1..Len(calls) : IsOpen(calls[i]) /\ Rejected(calls[i])

\* An extractMetadata() has completed on the explorer x.
Enriched(x) ==
  \E i \in 1..Len(calls) :
    calls[i].op = "extractMetadata" /\ calls[i].on = x /\ Resolved(calls[i])

\* C3: getFileEntryMetadata(entry) throws "Metadata for file ... not found"
\* until an extractMetadata() has completed on the same explorer, and from
\* then on returns a record, that of the entry's path, for every File entry
\* of the opened archive.
C3_MetadataAfterExtract ==
  observed.get = "getFileEntryMetadata" =>
    IF Enriched(observed.on)
    THEN /\ observed.res.ok
         /\ observed.res.val.path = heap[zipArchive].entries[observed.entry].path
    ELSE Failed(observed.res, ErrNoMetadata)

\* A record has been returned on the ROCrateZipExplorer while the
\* ZipExplorer under it has extracted nothing.
C3_Witness ==
  /\ observed.get = "getFileEntryMetadata" /\ observed.on = "roc"
  /\ observed.res.ok
  /\ ~Enriched("zip")

\* The File entries of the archive object za whose path is exactly
\* "ro-crate-metadata.json": the crate's metadata file, at the archive root.
RootCrateEntries(za) ==
  {k \in FileIndexes(heap[za].entries) :
     heap[za].entries[k].path = ROCRATE_METADATA_FILENAME}

\* An extractMetadata() on the ROCrateZipExplorer has read and parsed the
\* entry named ro-crate-metadata.json, and stored the crate.
LoadedCrateFile ==
  \E i \in 1..Len(calls) :
    /\ calls[i].op = "extractMetadata" /\ calls[i].on = "roc"
    /\ calls[i].pc \in {"fill", "done"}
    /\ calls[i].crate.state = "crate"
    /\ calls[i].crate.path = ROCRATE_METADATA_FILENAME

\* C4: the crate accessor returns the crate exactly in the states reached
\* after an extractMetadata() has loaded ro-crate-metadata.json; in every
\* other state it throws, "Please call open() ..." before an open() has
\* resolved and "No RO-Crate metadata found in the ZIP archive" after.
C4_CrateAccessor ==
  observed.get = "crate" =>
    IF LoadedCrateFile
    THEN observed.res.ok /\ observed.res.val.path = ROCRATE_METADATA_FILENAME
    ELSE IF OpenResolved THEN Failed(observed.res, ErrNoCrate)
    ELSE Failed(observed.res, ErrNotOpen)

\* C5: on a ROCrateZipExplorer opened on an archive without the RO-Crate
\* metadata file and with a File entry, every extractMetadata() rejects with
\* "No RO-Crate metadata found in the ZIP archive" and no metadata record is
\* stored: getFileEntryMetadata fails for every entry afterwards.
C5_NoCrateRejects ==
  \A i \in 1..Len(calls) :
    (/\ calls[i].op = "extractMetadata" /\ calls[i].on = "roc" /\ calls[i].pc = "done"
     /\ \E j \in 1..(i - 1) : IsOpen(calls[j]) /\ Resolved(calls[j])
     /\ RootCrateEntries(zipArchive) = {}
     /\ FileIndexes(heap[zipArchive].entries) # {})
    => /\ Failed(calls[i].res, ErrNoCrate)
       /\ \A k \in FileIndexes(heap[zipArchive].entries) :
            ~getFileEntryMetadata(fileMetadataMap["roc"], heap[zipArchive].entries[k].path).ok

\* C6: after open, hasCrate is true if and only if the archive has a File
\* entry whose path is exactly "ro-crate-metadata.json", and the entry that
\* extractMetadata reads as the crate is that entry and no other.
C6_ExactCrateName ==
  /\ (observed.get = "hasCrate" /\ observed.res.ok)
       => (observed.res.val <=> RootCrateEntries(zipArchive) # {})
  /\ \A i \in 1..Len(calls) :
       (calls[i].op = "extractMetadata" /\ calls[i].entry # 0)
         => calls[i].entry \in RootCrateEntries(calls[i].arch)

\* The entry's path ends in "/".
DirectoryPath(path) == path # <<>> /\ path[Len(path)] = Slash

\* C7: extractFile on an entry of type Directory (a path ending in "/")
\* rejects with "Cannot extract a directory." and has issued no ranged read
\* on the source.
C7_DirectoryRejected ==
  \A i \in 1..Len(calls) :
    (calls[i].op = "extractFile" /\ DirectoryPath(TheEntry(calls[i]).path))
      => /\ calls[i].pc = "done"
         /\ Failed(calls[i].res, ErrDirectory)
         /\ \A r \in 1..Len(reads) : reads[r].call # i

\* A directory has been rejected, after an extractFile on a file of the
\* same archive has read the source.
C7_Witness ==
  \E i, j \in 1..Len(calls) :
    /\ calls[i].op = "extractFile" /\ TheEntry(calls[i]).type = "File"
    /\ \E r \in 1..Len(reads) : reads[r].call = i
    /\ calls[j].op = "extractFile" /\ DirectoryPath(TheEntry(calls[j]).path)
    /\ Failed(calls[j].res, ErrDirectory)

\* The member of the source that the archive was built with under this path.
MemberOf(path) ==
  LET ms == Layouts[src].ms
  IN  ms[CHOOSE k \in 1..Len(ms) : ms[k].name = path]

\* The bytes that were DEFLATEd or stored to make the member's payload.
Original(m) == IF m.method = 8 THEN SubSeq(m.data, 6, Len(m.data)) ELSE m.data

\* Every ranged read of the finished call gave exactly the bytes asked for.
Delivered(c) == c.pc = "done" /\ c.exact /\ ~Failed(c.res, ErrFetch)

TrailingWindowOf(s) ==
  Buffer(Max(SourceSize(Archives[s]) - MAX_EOCD_SIZE, 0),
         Min(SourceSize(Archives[s]), MAX_EOCD_SIZE))

\* The bytes 0x50 0x4B 0x05 0x06 stand at offset o of the window.
SignatureAt(s, window, o) ==
  /\ SrcByte(Archives[s], window.start + o) = 80
  /\ SrcByte(Archives[s], window.start + o + 1) = 75
  /\ SrcByte(Archives[s], window.start + o + 2) = 5
  /\ SrcByte(Archives[s], window.start + o + 3) = 6

\* The offsets o <= windowLength - 22 of the trailing window of source s
\* with the signature.  (Only offsets from which the body of the source is
\* reached are looked at: everything else is zero.)
SignatureOffsetsOf ==
  [s \in 1..Len(Archives) |->
     LET a == Archives[s]
         window == TrailingWindowOf(s)
         first == Max(0, a.pre - 3 - window.start)
         last == Min(window.len - 22, a.pre + Len(a.body) - 1 - window.start)
     IN  {o \in first..last : SignatureAt(s, window, o)}]

\* C9: open takes as the EOCD the highest offset o <= windowLength - 22 of
\* the trailing window at which the signature 0x06054B50 stands, the whole
\* 22-byte record then lies in the window; when there is no such offset,
\* as in a source shorter than 22 bytes, open fails with the EOCD-not-found
\* error, and only then.
C9_EOCDLocated ==
  LET offs == SignatureOffsetsOf[src]
  IN  /\ eocdData.set =>
           /\ eocdData.dataView = TrailingWindowOf(src)
           /\ eocdData.offset \in offs
           /\ \A o \in offs : o <= eocdData.offset
           /\ InView(eocdData.dataView, eocdData.offset, 22)
      /\ \A i \in 1..Len(calls) :
           IsOpen(calls[i]) =>
             IF offs = {}
             THEN /\ calls[i].pc \in {"doOpen", "loadEOCD", "done"}
                  /\ calls[i].pc = "done" => (Failed(calls[i].res, ErrFetch)
                                              \/ Failed(calls[i].res, ErrNoEOCD))
             ELSE ~Failed(calls[i].res, ErrNoEOCD)

\* The window holds the signature at two offsets, and the EOCD has been
\* taken at the higher one.
C9_Witness ==
  /\ eocdData.set
  /\ \E o \in SignatureOffsetsOf[src] : o < eocdData.offset

\* A ZIP file whose central-directory records all have the signature
\* 0x02014B50 and pairwise distinct names, and whose EOCD record is the only
\* one in the trailing window.
WellFormed(l) ==
  /\ l.zip
  /\ \A k \in 1..Len(l.ms) : l.ms[k].sig = CDSIG
  /\ \A j, k \in 1..Len(l.ms) : l.ms[j].name = l.ms[k].name => j = k
  /\ l.comment = <<>>
  /\ 22 + l.post <= MAX_EOCD_SIZE

\* C10: for an archive whose central directory holds N records with valid
\* signatures and pairwise distinct paths, open (its reads delivered) yields
\* exactly N entries, in the order of the central directory, with the
\* decoded names as paths; a record whose first four bytes are not
\* 0x02014B50 makes open fail.
C10_IndexOfRecords ==
  \A i \in 1..Len(calls) :
    (IsOpen(calls[i]) /\ Delivered(calls[i])) =>
      LET l == Layouts[src]
      IN  /\ WellFormed(l) =>
               /\ calls[i].res.ok
               /\ Len(heap[calls[i].res.val].entries) = Len(l.ms)
               /\ \A k \in 1..Len(l.ms) :
                    heap[calls[i].res.val].entries[k].path = Utf8Decode(l.ms[k].name)
          /\ (l.zip /\ \E k \in 1..Len(l.ms) : l.ms[k].sig # CDSIG) => ~calls[i].res.ok

\* The central directory of the source holds two records with one name.
DuplicateNames(l) ==
  l.zip /\ \E j, k \in 1..Len(l.ms) : j # k /\ l.ms[j].name = l.ms[k].name

\* C11: open rejects every archive whose central directory holds two
\* records with the same path, and no index that open returns holds a path
\* twice.
C11_DuplicatePathsRejected ==
  \A i \in 1..Len(calls) :
    (IsOpen(calls[i]) /\ calls[i].pc = "done") =>
      /\ DuplicateNames(Layouts[src]) => Rejected(calls[i])
      /\ Resolved(calls[i]) =>
           LET entries == heap[calls[i].res.val].entries
           IN  \A j, k \in 1..Len(entries) :
                 entries[j].path = entries[k].path => j = k

\* The EOCD record of source s that the backward scan finds (C9) has the
\* ZIP64 EOCD locator signature, bytes 0x50 0x4B 0x06 0x07, 20 bytes before
\* it in the source.
Zip64LocatorOf ==
  [s \in 1..Len(Archives) |->
     /\ SignatureOffsetsOf[s] # {}
     /\ LET o == CHOOSE x \in SignatureOffsetsOf[s] : \A y \in SignatureOffsetsOf[s] : y <= x
            abs == TrailingWindowOf(s).start + o
        IN  /\ abs >= 20
            /\ SrcByte(Archives[s], abs - 20) = 80
            /\ SrcByte(Archives[s], abs - 19) = 75
            /\ SrcByte(Archives[s], abs - 18) = 6
            /\ SrcByte(Archives[s], abs - 17) = 7]

\* C12: for every archive that open returns, isZip64 is true exactly when
\* the ZIP64 EOCD locator signature stands in the 20 bytes before the EOCD
\* record, whatever the size of the archive and the length of its comment.
C12_Zip64Detected ==
  \A i \in 1..Len(calls) :
    (IsOpen(calls[i]) /\ Resolved(calls[i])) =>
      heap[calls[i].res.val].isZip64 = Zip64LocatorOf[src]

\* path is some text followed by suffix.
HasSuffix(path, suffix) ==
  \E n \in 0..Len(path) : path = SubSeq(path, 1, n) \o suffix

\* C13: findFileByName(s) returns the first entry, in central-directory
\* order, that is of type File and whose path ends with s, and undefined
\* when there is none; it never returns a Directory entry.
C13_FindFileByName ==
  (observed.get = "findFileByName") =>
    LET entries == heap[zipArchive].entries
        s == SearchedNames[observed.entry]
        k == observed.res.val
    IN  IF \E j \in 1..Len(entries) : entries[j].type = "File" /\ HasSuffix(entries[j].path, s)
        THEN /\ k \in 1..Len(entries)
             /\ entries[k].type = "File" /\ entries[k].path[Len(entries[k].path)] # Slash
             /\ HasSuffix(entries[k].path, s)
             /\ \A j \in 1..(k - 1) :
                  ~(entries[j].type = "File" /\ HasSuffix(entries[j].path, s))
        ELSE k = 0

\* Two files of the archive end with the name: the first one is returned.
C13_Witness ==
  /\ observed.get = "findFileByName"
  /\ observed.res.val = 1
  /\ \E j \in 2..Len(heap[zipArchive].entries) :
       /\ heap[zipArchive].entries[j].type = "File"
       /\ HasSuffix(heap[zipArchive].entries[j].path, SearchedNames[observed.entry])

\* The ranges that call i has asked the source for, in the order of asking.
ReadsOf(i) ==
  LET rs == SelectSeq(reads, LAMBDA r : r.call = i)
  IN  [k \in 1..Len(rs) |-> Buffer(rs[k].start, rs[k].len)]

\* The central directory of source s: offset (at 16) and size (at 12) in the
\* EOCD record that the backward scan finds.
CentralDirectoryOf ==
  [s \in 1..Len(Archives) |->
     IF SignatureOffsetsOf[s] = {} THEN Buffer(0, 0)
     ELSE LET o == CHOOSE x \in SignatureOffsetsOf[s] : \A y \in SignatureOffsetsOf[s] : y <= x
              record == Buffer(TrailingWindowOf(s).start + o, 22)
          IN  Buffer(getUint32(Archives[s], record, 16), getUint32(Archives[s], record, 12))]

\* The local header of the entry and its payload, behind the name and the
\* extra field that the member has in its local header.
LocalHeaderAndPayload(e) ==
  LET m == MemberOf(e.path)
  IN  << Buffer(e.headerOffset, 30),
         Buffer(e.headerOffset + 30 + Len(m.name) + Len(m.lextra), e.compressSize) >>

\* The reads the claim allows the call: window and central directory for
\* an open, header and payload for the extraction of a File entry.
AllowedReads(c) ==
  IF IsOpen(c) THEN <<TrailingWindowOf(src), CentralDirectoryOf[src]>>
  ELSE IF c.entry # 0 /\ TheEntry(c).type = "File"
  THEN LocalHeaderAndPayload(TheEntry(c))
  ELSE <<>>

LastExtractResolved(x) ==
  /\ Enriched(x)
  /\ \A i \in 1..Len(calls) :
       (calls[i].op = "extractMetadata" /\ calls[i].on = x) =>
         \/ Resolved(calls[i])
         \/ \E j \in (i + 1)..Len(calls) :
              calls[j].op = "extractMetadata" /\ calls[j].on = x

\* name is the text of path behind its last '/'.
AfterLastSlash(path, name) ==
  /\ \A k \in 1..Len(name) : name[k] # Slash
  /\ \E n \in 0..Len(path) :
       /\ path = SubSeq(path, 1, n) \o name
       /\ n = 0 \/ path[n] = Slash

\* C15: after extractMetadata() on a ZipExplorer the map holds exactly one
\* record per File entry and none for a Directory entry, and the record of
\* an entry has the entry's path, the text behind the last '/' of the path as
\* name, the uncompressed size as size, the entry's dateTime and no
\* description.
C15_BasicMetadata ==
  LastExtractResolved("zip") =>
    LET entries == heap[zipArchive].entries
        map == fileMetadataMap["zip"]
    IN  /\ Cardinality(DOMAIN map) = Cardinality(FileIndexes(entries))
        /\ \A k \in 1..Len(entries) :
             IF entries[k].type = "File"
             THEN /\ entries[k].path \in DOMAIN map
                  /\ map[entries[k].path].path = entries[k].path
                  /\ AfterLastSlash(entries[k].path, map[entries[k].path].name)
                  /\ map[entries[k].path].size = entries[k].fileSize
                  /\ map[entries[k].path].dateTime = entries[k].dateTime
                  /\ map[entries[k].path].description = NoValue
             ELSE entries[k].path \notin DOMAIN map

\* C16: after extractMetadata() on a ROCrateZipExplorer, the record of a
\* File entry has the name of the entity that crate.getEntity(entry.path)
\* finds when that name is a string, and the description of the entity when
\* that is a string; otherwise name and description are those of the basic
\* metadata; path, size and dateTime are those of the entry.
C16_CrateMetadata ==
  LastExtractResolved("roc") =>
    LET entries == heap[zipArchive].entries
        map == fileMetadataMap["roc"]
    IN  \A k \in FileIndexes(entries) :
          LET e == entries[k]
              record == map[e.path]
              named == {g \in 1..Len(crate.graph) :
                          crate.graph[g].id = e.path /\ crate.graph[g].name.type = "string"}
              described == {g \in 1..Len(crate.graph) :
                              /\ crate.graph[g].id = e.path
                              /\ crate.graph[g].description.type = "string"}
          IN  /\ e.path \in DOMAIN map
              /\ record.path = e.path /\ record.size = e.fileSize
              /\ record.dateTime = e.dateTime
              /\ IF named = {} THEN AfterLastSlash(e.path, record.name)
                 ELSE \E g \in named : record.name = crate.graph[g].name.val
              /\ IF described = {} THEN record.description = NoValue
                 ELSE \E g \in described : record.description = crate.graph[g].description.val

\* The crate names one file and describes another: the first record has the
\* entity's name and no description, the second the entity's description
\* and the name of the basic metadata.
C16_Witness ==
  /\ LastExtractResolved("roc")
  /\ \E p, q \in DOMAIN fileMetadataMap["roc"] :
       /\ fileMetadataMap["roc"][p].name = <<65>> /\ ~AfterLastSlash(p, <<65>>)
       /\ fileMetadataMap["roc"][p].description = NoValue
       /\ fileMetadataMap["roc"][q].description = "the crate"
       /\ AfterLastSlash(q, fileMetadataMap["roc"][q].name)

\* C17: two extractMetadata() in sequence on the same opened explorer (a
\* ZipExplorer, or a ROCrateZipExplorer with a crate) that both resolve
\* leave the same keys and equal records in the map.
C17_ExtractMetadataTwice ==
  \A i, j \in 1..Len(calls) :
    (/\ i < j
     /\ calls[i].op = "extractMetadata" /\ Resolved(calls[i])
     /\ calls[j].op = "extractMetadata" /\ Resolved(calls[j])
     /\ calls[i].on = calls[j].on)
      => /\ calls[j].map = calls[i].map
         /\ (\A k \in (j + 1)..Len(calls) : calls[k].op # "extractMetadata")
              => fileMetadataMap[calls[j].on] = calls[i].map

\* The second extractMetadata() on a ROCrateZipExplorer has resolved and has
\* left records that the crate has named.
C17_Witness ==
  \E i, j \in 1..Len(calls) :
    /\ i < j
    /\ calls[i].op = "extractMetadata" /\ Resolved(calls[i]) /\ calls[i].on = "roc"
    /\ calls[j].op = "extractMetadata" /\ Resolved(calls[j]) /\ calls[j].on = "roc"
    /\ \E p \in DOMAIN fileMetadataMap["roc"] : fileMetadataMap["roc"][p].name = <<65>>

\* C18: the wrapper and the ZipExplorer it wraps expose the same handle:
\* once an open() has resolved on either, entries and zipArchive of both
\* give that handle, and an open() on the other returns it without a read;
\* before, the accessors of both throw.
C18_WrapperSharesHandle ==
  /\ observed.get \in {"entries", "zipArchive"} =>
       IF OpenResolved
       THEN \A i \in 1..Len(calls) :
              (IsOpen(calls[i]) /\ Resolved(calls[i])) => observed.res = Ok(calls[i].res.val)
       ELSE Failed(observed.res, ErrNotOpen)
  /\ \A i, j \in 1..Len(calls) :
       (/\ i < j /\ calls[i].on # calls[j].on
        /\ IsOpen(calls[i]) /\ Resolved(calls[i]) /\ IsOpen(calls[j]))
         => /\ calls[j].res = Ok(calls[i].res.val)
            /\ ReadsOf(j) = <<>>

\* The ZipExplorer was opened, the open() of the wrapper has returned its
\* handle, and the entries of the wrapper are read.
C18_Witness ==
  /\ Len(calls) = 2
  /\ IsOpen(calls[1]) /\ calls[1].on = "zip" /\ Resolved(calls[1])
  /\ IsOpen(calls[2]) /\ calls[2].on = "roc" /\ Resolved(calls[2])
  /\ observed.get = "entries" /\ observed.on = "roc" /\ observed.res.ok

\* C19: the constructor of a delegating explorer composes with every
\* existing explorer it is given (a ZipExplorer, a ROCrateZipExplorer or
\* another AbstractZipExplorer) and makes a new ZipExplorer, with a service,
\* only over a File or a URL string.
C19_ConstructorComposes ==
  observed.get = "new" =>
    LET given == ConstructorArguments[observed.entry]
    IN  /\ observed.res.ok
        /\ IF given \in {"File", "string"}
           THEN /\ observed.res.val.explorer = "new ZipExplorer"
                /\ observed.res.val.service # "none"
           ELSE /\ observed.res.val.explorer = given
                /\ observed.res.val.service = "none"

\* C20: extractFile on a service, and getFileContents of the explorer that
\* delegates to it, rejects with an error when open() has not been called
\* on that service.
C20_ExtractBeforeOpenRejects ==
  \A i \in 1..Len(calls) :
    (/\ calls[i].op = "extractFile" /\ calls[i].pc = "done"
     /\ \A j \in 1..(i - 1) : ~IsOpen(calls[j]))
      => Rejected(calls[i])

\* C24: when open() fails the explorer stays as it was created: no archive
\* object is stored or left behind, entries and zipArchive still throw
\* "Please call open() ...", and the next open() runs the whole procedure
\* again: it asks for the EOCD window first, and resolves only with an
\* archive object that it has read with its own two ranged reads.
C24_FailedOpenLeavesCreated ==
  /\ (Idle /\ ~OpenResolved) => (zipArchive = 0 /\ heap = <<>>)
  /\ (observed.get \in {"entries", "zipArchive"} /\ ~OpenResolved)
       => Failed(observed.res, ErrNotOpen)
  /\ \A j \in 1..Len(calls) :
       (/\ IsOpen(calls[j])
        /\ \E i \in 1..(j - 1) : IsOpen(calls[i]) /\ Rejected(calls[i])
        /\ \A i \in 1..(j - 1) : ~(IsOpen(calls[i]) /\ Resolved(calls[i])))
         => /\ calls[j].pc # "start"
            /\ ReadsOf(j) # <<>> => ReadsOf(j)[1] = TrailingWindowOf(src)
            /\ Resolved(calls[j]) =>
                 /\ calls[j].res.val \in 1..Len(heap)
                 /\ zipArchive = calls[j].res.val
                 /\ Len(ReadsOf(j)) = 2

\* An open() has failed, the accessors have thrown after it, and the next
\* open() has read the archive and resolved.
C24_Witness ==
  /\ Len(calls) = 2
  /\ IsOpen(calls[1]) /\ Rejected(calls[1])
  /\ IsOpen(calls[2]) /\ Resolved(calls[2]) /\ Len(ReadsOf(2)) = 2

\* C25: every ranged read of open and extractFile gives exactly the bytes
\* asked for, or the operation fails: no call resolves after a read that has
\* given fewer or more bytes than the range it asked for.
C25_ExactReadsOrFailure ==
  \A i \in 1..Len(calls) :
    (calls[i].pc = "done" /\ ~calls[i].exact) => Rejected(calls[i])

\* The local header of member k of the layout l stands at this offset.
LocalHeaderOffsetOf(l, k) == l.pre + Len(LocalParts(SubSeq(l.ms, 1, k - 1)))

\* C26: a central-directory record with a ZIP64 extra record is parsed to
\* the member's values: each of compressed size, uncompressed size and
\* local-header offset is taken from the extra record when its 32-bit field
\* is 0xFFFFFFFF, and from the 32-bit field otherwise, whatever the other
\* two fields hold; so an open whose reads are delivered resolves, and the
\* entries have the sizes and the offsets of the members.
C26_Zip64ExtraPerField ==
  \A i \in 1..Len(calls) :
    LET l == Layouts[src]
    IN  (/\ IsOpen(calls[i]) /\ Delivered(calls[i])
         /\ WellFormed(l)
         /\ \E k \in 1..Len(l.ms) : l.ms[k].z64 # "no")
          => /\ Resolved(calls[i])
             /\ \A k \in 1..Len(l.ms) :
                  LET e == heap[calls[i].res.val].entries[k]
                  IN  /\ e.compressSize = Len(l.ms[k].data)
                      /\ e.fileSize = l.ms[k].usize
                      /\ e.headerOffset = LocalHeaderOffsetOf(l, k)

\* The bits [from, from + width) of the 32-bit value t (values of 2^31 and
\* more in the writing t - 2^32).
BitField(t, from, width) == (t \div (2 ^ from)) % (2 ^ width)

\* C27: the dateTime of every entry is the local calendar moment of the
\* member's DOS date-time: seconds/2 in bits 0-4, minutes in 5-10, hours in
\* 11-15, day in 16-20, month in 21-24, year - 1980 in 25-31; the moment has
\* the year + 1980, the month, the day, the hours, the minutes and twice the
\* seconds field.
C27_DecodeDateTime ==
  \A a \in 1..Len(heap) :
    \A k \in 1..Len(heap[a].entries) :
      LET e == heap[a].entries[k]
          t == MemberOf(e.path).time
      IN  (Layouts[src].zip /\ ~DuplicateNames(Layouts[src])) =>
            /\ e.dateTime.year = BitField(t, 25, 7) + 1980
            /\ e.dateTime.month + 1 = BitField(t, 21, 4)
            /\ e.dateTime.day = BitField(t, 16, 5)
            /\ e.dateTime.hour = BitField(t, 11, 5)
            /\ e.dateTime.min = BitField(t, 5, 6)
            /\ e.dateTime.sec = 2 * BitField(t, 0, 5)

\* C30: each explorer owns its metadata map.  No step of an
\* extractMetadata() changes the map of the other explorer, the archive
\* handle or the archive objects with their entries, be the call made on the
\* wrapper or on the wrapped ZipExplorer; and the map of an explorer that no
\* extractMetadata() has enriched is empty, so that getFileEntryMetadata
\* still fails on it.
C30_MapsOwned ==
  /\ [](\A x \in Explorers : ~Enriched(x) => fileMetadataMap[x] = EmptyMap)
  /\ [][\A i \in 1..Len(calls') :
          (/\ calls'[i].op = "extractMetadata"
           /\ (i > Len(calls) \/ calls'[i] # calls[i]))
            => /\ \A x \in Explorers \ {calls'[i].on} :
                    fileMetadataMap'[x] = fileMetadataMap[x]
               /\ zipArchive' = zipArchive
               /\ heap' = heap]_vars

\* The wrapper has been enriched and then the wrapped ZipExplorer: the
\* wrapper still has the record the crate has named, the ZipExplorer has
\* the basic one.
C30_Witness ==
  /\ Enriched("roc") /\ Enriched("zip")
  /\ \E p \in DOMAIN fileMetadataMap["roc"] :
       /\ fileMetadataMap["roc"][p].name = <<65>>
       /\ p \in DOMAIN fileMetadataMap["zip"]
       /\ fileMetadataMap["zip"][p].name = <<97>>
  /\ calls[Len(calls)].on = "zip"

\* C21: wherever another task can look at it, the map of an explorer that
\* an extractMetadata() has enriched is the complete map that some finished
\* extractMetadata() has left, so that getFileEntryMetadata on a File entry
\* does not fail while a later extractMetadata() is in flight or after one
\* has failed.
C21_NoClearedMapVisible ==
  /\ \A x \in Explorers :
       Enriched(x) =>
         \E i \in 1..Len(calls) :
           /\ calls[i].op = "extractMetadata" /\ calls[i].on = x /\ Resolved(calls[i])
           /\ fileMetadataMap[x] = calls[i].map
  /\ (observed.get = "getFileEntryMetadata" /\ Enriched(observed.on)) => observed.res.ok

\* C22: the archive handle, once set, is never replaced: whatever the
\* interleaving of the open() calls on one explorer, all of them resolve to
\* one ZipArchive object, and the archive is read and parsed once, so that
\* no second object is built.
C22_HandleSetOnce ==
  /\ \A i, j \in 1..Len(calls) :
       (IsOpen(calls[i]) /\ Resolved(calls[i]) /\ IsOpen(calls[j]) /\ Resolved(calls[j]))
         => calls[i].res.val = calls[j].res.val
  /\ Len(heap) <= 1

\* C23: open() calls that overlap on one service over a well-formed
\* archive, their reads delivered, all resolve: none fails because of what
\* another open in flight has done to the state of the service.
C23_OverlappingOpensResolve ==
  \A i \in 1..Len(calls) :
    (IsOpen(calls[i]) /\ Delivered(calls[i]) /\ WellFormed(Layouts[src]))
      => Resolved(calls[i])

\* What the claim has followRedirects(url) settle with, for a chain of at
\* most fuel requests: the URL of the first response that is no 3xx, the
\* Location of a 3xx response taken as the next URL, a relative one resolved
\* against the current URL; an error for a 3xx response without Location.
RECURSIVE ClaimedOutcome(_, _)
ClaimedOutcome(url, fuel) ==
  LET r == ServerResponse(url)
  IN  IF fuel = 0 THEN NoResult
      ELSE IF r.status \in 300..399
      THEN IF r.location = NoLocation THEN Fail(ErrRedirect)
           ELSE ClaimedOutcome(IF HasScheme(r.location) THEN r.location
                               ELSE ResolveUrl(r.location, url), fuel - 1)
      ELSE Ok(url)

\* C28: followRedirects starts at the URL given, takes the Location of each
\* 3xx response as the next URL, a relative Location resolved against the
\* current URL, and returns the URL of the first response whose status is
\* no 3xx; it rejects with "Redirect location missing in response" on a 3xx
\* response without Location.
C28_FollowRedirects ==
  \A i \in 1..Len(calls) :
    (/\ calls[i].op = "followRedirects" /\ calls[i].pc = "done"
     /\ ~Failed(calls[i].res, ErrFetch))
      => calls[i].res = ClaimedOutcome(Responses[calls[i].entry].url, Len(Responses) + 1)

\* C29: every followRedirects, and with it the open() of a Remote source
\* that awaits it, resolves or rejects after finitely many HEAD requests,
\* whatever the server answers.
C29_FollowRedirectsTerminates ==
  \A i \in 1..MaxCalls :
    (Len(calls) >= i) ~> (Len(calls) >= i /\ calls[i].pc = "done")

=============================================================================
